---------------------------- MODULE Spec2Model ----------------------------
(***************************************************************************)
(* react-native-lighthouse: the usePerformanceMeasurement hook and the     *)
(* scoring functions it calls.                                             *)
(*                                                                         *)
(* One tracker instance is a record of the hook's refs and state, the      *)
(* timers and microtasks it has scheduled on the JavaScript event loop,    *)
(* and the log of the observer callbacks it has invoked.  `trackers` maps  *)
(* every mounted component instance to its record; `now` is Date.now().    *)
(*                                                                         *)
(* The scoring functions are pure.  `call` is one call of an exported      *)
(* scoring function: the function, its arguments and, once it has          *)
(* returned, its result.                                                   *)
(*                                                                         *)
(* An optional JavaScript value (null, undefined, or a value) is the empty *)
(* sequence or a one-element sequence.                                     *)
(***************************************************************************)
EXTENDS Integers, Sequences, FiniteSets

VARIABLES now, trackers, call

vars == <<now, trackers, call>>

---------------------------------------------------------------------------
(* Bounds of the model *)

\* Date.now() when the component is first rendered
StartTime == 1000
\* the clock advances in steps of TickMs, at most MaxTicks times
MaxTicks == 1
\* calls of markInteractive() the host makes
MaxMarkCalls == 2
\* touch / move events the gesture system delivers
MaxInputs == 2
\* re-renders of the host component
MaxRerenders == 1
PairMaxMarkCalls == 1
PairMaxInputs == 1
PairMaxRerenders == 1

TickMs == 400

\* scoring: every threshold pair with good and poor in 0..MaxThreshold is tried
MaxThreshold == 8
\* scoring: every value up to MaxDurationMs is tried against the default thresholds
MaxDurationMs == 1600

\* values of the fidTimeout option
FidTimeouts == {0, TickMs}

Instances == {1}

\* const x = e; F(x): e is evaluated once and F applied to its value
Const(e, F(_)) == CHOOSE r \in {F(x) : x \in {e}} : TRUE

---------------------------------------------------------------------------
(* Optional values and JavaScript's || *)

None == <<>>
Some(v) == <<v>>

\* a || b for optional numbers: undefined, null and 0 are falsy
OrNum(a, b) == IF a # None /\ a[1] # 0 THEN a ELSE b

\* a || b for optional objects: undefined and null are falsy
OrObj(a, b) == IF a # None THEN a ELSE b

\* (x || 0) for a number read through ?. from an optional record
NumOrZero(a) == IF a # None THEN a[1] ELSE 0

---------------------------------------------------------------------------
(* scoring *)

\* faulty variant: the FID thresholds exchanged
DEFAULT_THRESHOLDS_fidExchanged ==
    [ttff |-> [good |-> 300, poor |-> 800],
     tti  |-> [good |-> 500, poor |-> 1500],
     fid  |-> [good |-> 150, poor |-> 50]]

DEFAULT_THRESHOLDS ==
    [ttff |-> [good |-> 300, poor |-> 800],
     tti  |-> [good |-> 500, poor |-> 1500],
     fid  |-> [good |-> 50,  poor |-> 150]]

\* faulty variant: default weights that sum to 1.05
DEFAULT_WEIGHTS_sum105 == [ttff |-> 25, tti |-> 45, fid |-> 35]

\* faulty variant: default weights that sum to 0.95
DEFAULT_WEIGHTS_sum95 == [ttff |-> 25, tti |-> 40, fid |-> 30]

\* the weights 0.25, 0.45, 0.30 in hundredths
DEFAULT_WEIGHTS == [ttff |-> 25, tti |-> 45, fid |-> 30]

\* Math.round(n / d) for integers n and d > 0, the quotient taken exactly: the
\* nearest integer, halves towards +infinity
RoundDiv(n, d) == (2 * n + d) \div (2 * d)

\* faulty variant: the value is compared with the wrong threshold
isGood_comparesPoor(value, thresholds) == value <= thresholds.poor

\* faulty variant: the good threshold is exclusive
isGood_exclusive(value, thresholds) == value < thresholds.good

\* value <= thresholds.good
isGood(value, thresholds) == value <= thresholds.good

\* value >= thresholds.poor
isPoor(value, thresholds) == value >= thresholds.poor

\* The code computes 100 - (position / range) * 100 in IEEE-754 doubles.  For
\* integers 0 < position < range the double differs from the exact value by
\* less than the distance of the exact value to the nearest half, unless the
\* exact value is itself a half (position / range = k / 200, k odd).  Of these
\* hundred quotients the double result is the exact half, or just above it,
\* for all but 109/200 and 111/200: there the product is 54.50000000000001
\* and 55.50000000000001, the difference from 100 is 45.49999999999999 and
\* 44.49999999999999, and Math.round rounds it down.
interpolationBelowHalf(position, range) ==
    200 * position \in {109 * range, 111 * range}

\* faulty variant: the interpolated part is not subtracted from 100
interpolate_rising(position, range) == RoundDiv(position * 100, range)

\* faulty variant: the interpolated part is added to 100
interpolate_signSlip(position, range) ==
    RoundDiv(100 * range + position * 100, range)

\* Math.round(100 - (position / range) * 100)
interpolate(position, range) ==
    RoundDiv(100 * range - position * 100, range)
      - (IF interpolationBelowHalf(position, range) THEN 1 ELSE 0)

calculateMetricScore(value, thresholds) ==
    IF isGood(value, thresholds) THEN 100
    ELSE IF isPoor(value, thresholds) THEN 0
    ELSE LET range    == thresholds.poor - thresholds.good
             position == value - thresholds.good
         IN  interpolate(position, range)

\* faulty variant: the lower bounds of the categories are exclusive
getScoreCategory_exclusive(score) ==
    IF score > 90 THEN "excellent"
    ELSE IF score > 75 THEN "good"
    ELSE IF score > 50 THEN "needs-improvement"
    ELSE "poor"

getScoreCategory(score) ==
    IF score >= 90 THEN "excellent"
    ELSE IF score >= 75 THEN "good"
    ELSE IF score >= 50 THEN "needs-improvement"
    ELSE "poor"

\* faulty variant: || in place of ??, so that a TTI of 0 counts as missing
ttiValueOf_or(m) == OrNum(m.timeToInteractiveMs, Some(m.timeToFirstFrameMs))[1]

\* metrics.timeToInteractiveMs ?? metrics.timeToFirstFrameMs
ttiValueOf(m) ==
    IF m.timeToInteractiveMs # None THEN m.timeToInteractiveMs[1]
    ELSE m.timeToFirstFrameMs

\* faulty variant: a missing FID defaults to TTFF, as a missing TTI does
fidValueOf_ttff(m) ==
    IF m.firstInputDelay # None THEN m.firstInputDelay[1].firstInputDelayMs
    ELSE m.timeToFirstFrameMs

\* metrics.firstInputDelay?.firstInputDelayMs ?? 0
fidValueOf(m) ==
    IF m.firstInputDelay # None THEN m.firstInputDelay[1].firstInputDelayMs ELSE 0

\* The sub-scores <<ttff, tti, fid>> in 0..100 for which the double sum
\* ttff * 0.25 + tti * 0.45 + fid * 0.30, added from left to right, lies just
\* below a half that the exact sum reaches, so that Math.round gives one less
\* than the rounded exact sum.  For every other triple of sub-scores the two
\* agree.
weightedSumBelowHalf ==
    {<<0, 2, 62>>, <<0, 2, 72>>, <<0, 2, 82>>, <<0, 2, 92>>,
     <<0, 6, 96>>, <<1, 1, 36>>, <<1, 1, 46>>, <<1, 1, 96>>,
     <<1, 7, 57>>, <<1, 7, 67>>, <<1, 7, 77>>, <<1, 7, 87>>,
     <<2, 2, 57>>, <<2, 2, 67>>, <<2, 2, 77>>, <<2, 2, 87>>,
     <<2, 2, 97>>, <<3, 1, 31>>, <<3, 1, 41>>, <<3, 7, 62>>,
     <<3, 7, 72>>, <<3, 7, 82>>, <<3, 7, 92>>, <<4, 2, 62>>,
     <<4, 2, 72>>, <<4, 2, 82>>, <<4, 2, 92>>, <<5, 1, 36>>,
     <<5, 1, 46>>, <<5, 1, 96>>, <<6, 2, 57>>, <<6, 2, 67>>,
     <<6, 2, 77>>, <<6, 2, 87>>, <<6, 2, 97>>, <<8, 2, 62>>,
     <<8, 2, 72>>, <<8, 2, 82>>, <<8, 2, 92>>, <<9, 1, 96>>,
     <<10, 2, 57>>, <<10, 2, 67>>, <<10, 2, 77>>, <<10, 2, 87>>,
     <<12, 2, 62>>, <<12, 2, 72>>, <<12, 2, 82>>, <<12, 2, 92>>}

\* the weights { ttff: 0.8, tti: 0.1, fid: 0.1 } and { ttff: 0.1, tti: 0.8,
\* fid: 0.1 } of the test "should respect custom weights", in hundredths
TTFF_WEIGHTED == [ttff |-> 80, tti |-> 10, fid |-> 10]

TTI_WEIGHTED == [ttff |-> 10, tti |-> 80, fid |-> 10]

\* weights that are multiples of a quarter: in doubles their products with
\* integer sub-scores, and the sums of these products, are exact
QuarterWeights ==
    {[ttff |-> 100, tti |-> 0,   fid |-> 0],
     [ttff |-> 0,   tti |-> 100, fid |-> 0],
     [ttff |-> 50,  tti |-> 50,  fid |-> 0],
     [ttff |-> 50,  tti |-> 25,  fid |-> 25],
     [ttff |-> 25,  tti |-> 50,  fid |-> 25],
     [ttff |-> 25,  tti |-> 25,  fid |-> 50]}

\* as weightedSumBelowHalf, for the double sum ttff * 0.8 + tti * 0.1 + fid * 0.1
\* (the sub-scores <<ttff, tti, fid>> in 0..100 whose exact sum is a half that
\* the double sum misses from below)
weightedSumBelowHalfTTFFWeighted ==
    {<<43, q[1], q[2]>> :
        q \in {r \in {3 + 5 * k : k \in 0..8} \X {3 + 5 * k : k \in 0..8} :
                 (r[1] + r[2]) % 10 = 1}}
      \cup
    {<<a, q[1], q[2]>> :
        a \in {81, 86, 91},
        q \in {r \in {1 + 5 * k : k \in 0..18} \X {1 + 5 * k : k \in 0..18} :
                 (r[1] + r[2]) % 10 = 7}}

\* the sub-scores for which Math.round of the double sum is one less than the
\* rounded exact sum, for the weights the model supplies: the first two terms
\* of the sum commute, so the triples of TTI_WEIGHTED are those of
\* TTFF_WEIGHTED with ttff and tti exchanged
weightedSumBelowHalfFor(weights) ==
    CASE weights = DEFAULT_WEIGHTS  -> weightedSumBelowHalf
      [] weights = TTFF_WEIGHTED    -> weightedSumBelowHalfTTFFWeighted
      [] weights = TTI_WEIGHTED
           -> {<<q[2], q[1], q[3]>> : q \in weightedSumBelowHalfTTFFWeighted}
      [] weights \in QuarterWeights -> {}

\* faulty variant: the TTFF and TTI weights applied to each other's score
weightedOverall_exchanged(ttffScore, ttiScore, fidScore, weights) ==
    RoundDiv(ttffScore * weights.tti + ttiScore * weights.ttff
             + fidScore * weights.fid, 100)

\* faulty variant: Math.floor in place of Math.round
weightedOverall_floor(ttffScore, ttiScore, fidScore, weights) ==
    (ttffScore * weights.ttff + ttiScore * weights.tti + fidScore * weights.fid)
      \div 100

\* Math.round(ttffScore * weights.ttff + ttiScore * weights.tti
\*            + fidScore * weights.fid), the weights in hundredths
weightedOverall(ttffScore, ttiScore, fidScore, weights) ==
    RoundDiv(ttffScore * weights.ttff + ttiScore * weights.tti
             + fidScore * weights.fid, 100)
      - (IF <<ttffScore, ttiScore, fidScore>> \in weightedSumBelowHalfFor(weights)
         THEN 1 ELSE 0)

calculatePerformanceScoreWith(m, thresholds, weights) ==
    LET ttffScore == calculateMetricScore(m.timeToFirstFrameMs, thresholds.ttff)
        ttiScore  == calculateMetricScore(ttiValueOf(m), thresholds.tti)
        fidScore  == calculateMetricScore(fidValueOf(m), thresholds.fid)
        overall   == weightedOverall(ttffScore, ttiScore, fidScore, weights)
    IN  [overall   |-> overall,
         breakdown |-> [ttff |-> ttffScore, tti |-> ttiScore, fid |-> fidScore],
         category  |-> getScoreCategory(overall)]

calculatePerformanceScore(m) ==
    calculatePerformanceScoreWith(m, DEFAULT_THRESHOLDS, DEFAULT_WEIGHTS)

\* ---- formatScore ----
\* a category string as the sequence of its characters
charsOf(category) ==
    CASE category = "excellent" -> <<"e", "x", "c", "e", "l", "l", "e", "n", "t">>
      [] category = "good" -> <<"g", "o", "o", "d">>
      [] category = "needs-improvement" ->
             <<"n", "e", "e", "d", "s", "-", "i", "m", "p", "r", "o", "v", "e",
               "m", "e", "n", "t">>
      [] category = "poor" -> <<"p", "o", "o", "r">>

LowerCase ==
    <<"a", "b", "c", "d", "e", "f", "g", "h", "i", "j", "k", "l", "m",
      "n", "o", "p", "q", "r", "s", "t", "u", "v", "w", "x", "y", "z">>

UpperCase ==
    <<"A", "B", "C", "D", "E", "F", "G", "H", "I", "J", "K", "L", "M",
      "N", "O", "P", "Q", "R", "S", "T", "U", "V", "W", "X", "Y", "Z">>

\* String.prototype.toUpperCase, one character at a time
toUpperCase(chars) ==
    [i \in DOMAIN chars |->
        IF \E k \in DOMAIN LowerCase : LowerCase[k] = chars[i]
        THEN UpperCase[CHOOSE k \in DOMAIN LowerCase : LowerCase[k] = chars[i]]
        ELSE chars[i]]

\* String.prototype.charAt: the empty string outside the string
charAt(chars, index) ==
    IF index + 1 \in DOMAIN chars THEN <<chars[index + 1]>> ELSE <<>>

\* String.prototype.slice(start)
slice(chars, start) == SubSeq(chars, start + 1, Len(chars))

RECURSIVE stringOf(_)
\* the string made of the characters
stringOf(chars) ==
    IF chars = <<>> THEN "" ELSE Head(chars) \o stringOf(Tail(chars))

RECURSIVE numberToString(_)
\* an integer as a template literal renders it: decimal digits, "-" if negative
numberToString(n) ==
    IF n < 0 THEN "-" \o numberToString(-n)
    ELSE IF n < 10
         THEN <<"0", "1", "2", "3", "4", "5", "6", "7", "8", "9">>[n + 1]
         ELSE numberToString(n \div 10) \o numberToString(n % 10)

\* faulty variant: the whole category upper-cased
categoryLabel_upperCased(category) == stringOf(toUpperCase(charsOf(category)))

categoryLabel(category) ==
    stringOf(toUpperCase(charAt(charsOf(category), 0))
             \o slice(charsOf(category), 1))

formatScore(score) ==
    numberToString(score.overall) \o " (" \o categoryLabel(score.category)
      \o ") - TTFF: " \o numberToString(score.breakdown.ttff)
      \o ", TTI: " \o numberToString(score.breakdown.tti)
      \o ", FID: " \o numberToString(score.breakdown.fid)

---------------------------------------------------------------------------
(* the hook: one instance's refs, state and scheduled work *)

\* the refs and state after the first render, at time t
InitTracker(t, timeout) ==
    [phase                    |-> "rendered",
     fidTimeout               |-> timeout,
     mountStartTimeMsRef      |-> t,
     firstFrameTimeMsRef      |-> None,
     interactiveTimeMsRef     |-> None,
     metricsRef               |-> None,
     hasLoggedRef             |-> FALSE,
     metrics                  |-> None,
     score                    |-> None,
     firstInputDelayRef       |-> None,
     hasRecordedFirstInputRef |-> FALSE,
     fidTimeoutRef            |-> None,
     timers                   |-> {},
     timerSeq                 |-> 0,
     microtasks               |-> <<>>,
     observed                 |-> <<>>,
     lastGestureResult        |-> None,
     markCalls                |-> 0,
     inputCalls               |-> 0,
     rerenders                |-> 0]

\* an observer callback invoked with (metrics) or (metrics, score)
Call(cb, m, sc) == [cb |-> cb, metrics |-> m, score |-> sc]

Calls(s, cb) == SelectSeq(s.observed, LAMBDA c : c.cb = cb)

\* setTimeout(callback, delay) at time t: a new timer id, pending until cleared or fired
setTimeout(s, t, delay) ==
    [s EXCEPT !.timerSeq = @ + 1,
              !.timers   = @ \cup {[id |-> s.timerSeq + 1, due |-> t + delay]}]

\* clearTimeout(id)
clearTimeout(s, id) == [s EXCEPT !.timers = {x \in @ : x.id # id}]

\* faulty variant: logFinalMetrics without the hasLoggedRef guard
logFinalMetricsReturns_noLoggedGuard(s) == s.metricsRef = None

\* the guard of logFinalMetrics: already reported, or no metrics yet
logFinalMetricsReturns(s) == s.hasLoggedRef \/ s.metricsRef = None

\* faulty variant: finalMetrics that copies the metrics record without
\* preserving the TTI data from the refs
finalMetricsOf_noReconcile(s) ==
    [s.metricsRef[1] EXCEPT
       !.firstInputDelay = OrObj(s.firstInputDelayRef, s.metricsRef[1].firstInputDelay)]

\* faulty variant: the restored timeToInteractiveMs measured from the first frame
finalMetricsOf_sinceFirstFrame(s) ==
    LET cur == s.metricsRef[1]
    IN  [cur EXCEPT
           !.timeToInteractiveMs =
               OrNum(cur.timeToInteractiveMs,
                     IF s.interactiveTimeMsRef # None /\ s.interactiveTimeMsRef[1] # 0
                     THEN Some(s.interactiveTimeMsRef[1] - cur.firstFrameTimeMs)
                     ELSE None),
           !.interactiveTimeMs =
               OrNum(cur.interactiveTimeMs, OrNum(s.interactiveTimeMsRef, None)),
           !.firstInputDelay =
               OrObj(s.firstInputDelayRef, cur.firstInputDelay)]

\* the finalMetrics record of logFinalMetrics
finalMetricsOf(s) ==
    LET cur == s.metricsRef[1]
    IN  [cur EXCEPT
           !.timeToInteractiveMs =
               OrNum(cur.timeToInteractiveMs,
                     IF s.interactiveTimeMsRef # None /\ s.interactiveTimeMsRef[1] # 0
                     THEN Some(s.interactiveTimeMsRef[1] - s.mountStartTimeMsRef)
                     ELSE None),
           !.interactiveTimeMs =
               OrNum(cur.interactiveTimeMs, OrNum(s.interactiveTimeMsRef, None)),
           !.firstInputDelay =
               OrObj(s.firstInputDelayRef, cur.firstInputDelay)]

\* faulty variant: logFinalMetrics leaves the pending timeout alone
clearPendingTimeout_keepsTimer(s) == s

\* logFinalMetrics clears the timeout if it exists
clearPendingTimeout(s) ==
    IF s.fidTimeoutRef # None
    THEN [clearTimeout(s, s.fidTimeoutRef[1]) EXCEPT !.fidTimeoutRef = None]
    ELSE s

logFinalMetrics(s) ==
    IF logFinalMetricsReturns(s) THEN s
    ELSE Const(clearPendingTimeout([s EXCEPT !.hasLoggedRef = TRUE]), LAMBDA s2 :
         Const(finalMetricsOf(s2), LAMBDA finalMetrics :
         Const(calculatePerformanceScore(finalMetrics), LAMBDA finalScore :
             [s2 EXCEPT !.metricsRef = Some(finalMetrics),
                        !.metrics    = Some(finalMetrics),
                        !.score      = Some(finalScore),
                        !.observed   = Append(@, Call("onReport", finalMetrics,
                                                      Some(finalScore)))])))

\* faulty variant: measureFirstInputDelay without its guard flag
isFirstInput_always(s) == TRUE

\* the guard of measureFirstInputDelay: only the first input is measured
isFirstInput(s) == ~s.hasRecordedFirstInputRef

\* faulty variant: the predicate claims the gesture it measures
gestureClaimed_whenMeasured(s) == isFirstInput(s)

\* what measureFirstInputDelay returns to the gesture system: return false
gestureClaimed(s) == FALSE

\* measureFirstInputDelay(inputType) called at time t; it returns false
measureFirstInputDelay(s, t, inputType) ==
    LET s1 == IF isFirstInput(s)
              THEN [s EXCEPT !.hasRecordedFirstInputRef = TRUE,
                             !.microtasks = Append(@, [kind      |-> "fid",
                                                       inputTime |-> t,
                                                       inputType |-> inputType])]
              ELSE s
    IN  [s1 EXCEPT !.lastGestureResult = Some(gestureClaimed(s))]

\* faulty variant: the FID data stored in the metrics without a new score
firstInputMicrotask_staleScore(s, t, task) ==
    LET fidMetrics == [firstInputDelayMs          |-> t - task.inputTime,
                       firstInputTimeMs           |-> task.inputTime,
                       inputProcessingStartTimeMs |-> t,
                       inputType                  |-> task.inputType]
        updatedMetrics == [s.metricsRef[1] EXCEPT !.firstInputDelay = Some(fidMetrics)]
    IN  Const(IF s.metricsRef # None
              THEN [s EXCEPT !.firstInputDelayRef = Some(fidMetrics),
                             !.metricsRef = Some(updatedMetrics),
                             !.metrics    = Some(updatedMetrics),
                             !.observed   = Append(@, Call("onMetricsReady",
                                                          updatedMetrics, None))]
              ELSE [s EXCEPT !.firstInputDelayRef = Some(fidMetrics)],
              logFinalMetrics)

\* the microtask queued by measureFirstInputDelay, run at time t
firstInputMicrotask(s, t, task) ==
    LET fidMetrics == [firstInputDelayMs          |-> t - task.inputTime,
                       firstInputTimeMs           |-> task.inputTime,
                       inputProcessingStartTimeMs |-> t,
                       inputType                  |-> task.inputType]
        updatedMetrics == [s.metricsRef[1] EXCEPT !.firstInputDelay = Some(fidMetrics)]
        updatedScore   == calculatePerformanceScore(updatedMetrics)
    IN  Const(IF s.metricsRef # None
              THEN [s EXCEPT !.firstInputDelayRef = Some(fidMetrics),
                             !.metricsRef = Some(updatedMetrics),
                             !.metrics    = Some(updatedMetrics),
                             !.score      = Some(updatedScore),
                             !.observed   = Append(@, Call("onMetricsReady",
                                                          updatedMetrics, None))]
              ELSE [s EXCEPT !.firstInputDelayRef = Some(fidMetrics)],
              logFinalMetrics)

\* the first-frame effect, run at time t after a render whose dependencies changed
firstFrameEffect(s, t) ==
    [s EXCEPT !.firstFrameTimeMsRef = IF @ = None THEN Some(t) ELSE @,
              !.microtasks = Append(@, [kind |-> "frame"])]

\* faulty variant: a first-frame microtask that stores the metrics and the
\* score without invoking onMetricsReady
firstFrameMicrotask_silent(s) ==
    LET initialMetrics ==
            [timeToFirstFrameMs  |-> s.firstFrameTimeMsRef[1] - s.mountStartTimeMsRef,
             mountStartTimeMs    |-> s.mountStartTimeMsRef,
             firstFrameTimeMs    |-> s.firstFrameTimeMsRef[1],
             timeToInteractiveMs |-> None,
             interactiveTimeMs   |-> None,
             firstInputDelay     |-> None]
    IN  [s EXCEPT !.metricsRef = Some(initialMetrics),
                  !.metrics    = Some(initialMetrics),
                  !.score      = Some(calculatePerformanceScore(initialMetrics))]

\* the microtask queued by the first-frame effect
firstFrameMicrotask(s) ==
    LET initialMetrics ==
            [timeToFirstFrameMs  |-> s.firstFrameTimeMsRef[1] - s.mountStartTimeMsRef,
             mountStartTimeMs    |-> s.mountStartTimeMsRef,
             firstFrameTimeMs    |-> s.firstFrameTimeMsRef[1],
             timeToInteractiveMs |-> None,
             interactiveTimeMs   |-> None,
             firstInputDelay     |-> None]
        initialScore == calculatePerformanceScore(initialMetrics)
    IN  [s EXCEPT !.metricsRef = Some(initialMetrics),
                  !.metrics    = Some(initialMetrics),
                  !.score      = Some(initialScore),
                  !.observed   = Append(@, Call("onMetricsReady", initialMetrics, None))]

\* faulty variant: the timeout is armed also after the report
armsTimeout_afterReport(s) == s.fidTimeoutRef = None

\* faulty variant: markInteractive without its early return
markInteractiveReturns_never(s) == FALSE

\* the guard of markInteractive: already marked as interactive
markInteractiveReturns(s) == s.interactiveTimeMsRef # None

\* the guard under which markInteractive arms the timeout
armsTimeout(s) == ~s.hasLoggedRef /\ s.fidTimeoutRef = None

\* faulty variant: updatedMetrics built without the first-input data
markInteractive_dropsFirstInput(s, t) ==
    IF markInteractiveReturns(s) THEN s
    ELSE LET updatedMetrics ==
                 [timeToInteractiveMs |-> Some(t - s.mountStartTimeMsRef),
                  interactiveTimeMs   |-> Some(t),
                  timeToFirstFrameMs  |->
                      IF s.metricsRef # None
                      THEN NumOrZero(Some(s.metricsRef[1].timeToFirstFrameMs)) ELSE 0,
                  mountStartTimeMs    |-> s.mountStartTimeMsRef,
                  firstFrameTimeMs    |->
                      IF s.metricsRef # None
                      THEN NumOrZero(Some(s.metricsRef[1].firstFrameTimeMs)) ELSE 0,
                  firstInputDelay     |-> None]
             updatedScore == calculatePerformanceScore(updatedMetrics)
             s1 == [s EXCEPT !.interactiveTimeMsRef = Some(t),
                             !.metricsRef = Some(updatedMetrics),
                             !.metrics    = Some(updatedMetrics),
                             !.score      = Some(updatedScore),
                             !.observed   = Append(@, Call("onInteractive",
                                                          updatedMetrics, None))]
         IN  IF armsTimeout(s1)
             THEN [setTimeout(s1, t, s1.fidTimeout) EXCEPT
                     !.fidTimeoutRef = Some(s1.timerSeq + 1)]
             ELSE s1

\* markInteractive() called at time t
markInteractive(s, t) ==
    IF markInteractiveReturns(s) THEN s
    ELSE LET updatedMetrics ==
                 [timeToInteractiveMs |-> Some(t - s.mountStartTimeMsRef),
                  interactiveTimeMs   |-> Some(t),
                  timeToFirstFrameMs  |->
                      IF s.metricsRef # None
                      THEN NumOrZero(Some(s.metricsRef[1].timeToFirstFrameMs)) ELSE 0,
                  mountStartTimeMs    |-> s.mountStartTimeMsRef,
                  firstFrameTimeMs    |->
                      IF s.metricsRef # None
                      THEN NumOrZero(Some(s.metricsRef[1].firstFrameTimeMs)) ELSE 0,
                  firstInputDelay     |->
                      OrObj(s.firstInputDelayRef,
                            IF s.metricsRef # None
                            THEN s.metricsRef[1].firstInputDelay ELSE None)]
             updatedScore == calculatePerformanceScore(updatedMetrics)
             s1 == [s EXCEPT !.interactiveTimeMsRef = Some(t),
                             !.metricsRef = Some(updatedMetrics),
                             !.metrics    = Some(updatedMetrics),
                             !.score      = Some(updatedScore),
                             !.observed   = Append(@, Call("onInteractive",
                                                          updatedMetrics, None))]
         IN  IF armsTimeout(s1)
             THEN [setTimeout(s1, t, s1.fidTimeout) EXCEPT
                     !.fidTimeoutRef = Some(s1.timerSeq + 1)]
             ELSE s1

\* faulty variant: a timeout callback that does not finalize
timeoutCallback_noFinalize(s) == s

\* the callback given to setTimeout by markInteractive
timeoutCallback(s) == logFinalMetrics(s)

\* faulty variant: an unmount that clears nothing
cleanup_noClear(s) == s

\* the cleanup of the unmount effect: the timer is cleared, the ref keeps its id
cleanup(s) ==
    IF s.fidTimeoutRef # None THEN clearTimeout(s, s.fidTimeoutRef[1]) ELSE s

---------------------------------------------------------------------------
(* the event loop *)

\* no scoring function is being called from outside the hook
NoCall == [fn |-> "none", args |-> <<>>, result |-> None]

Init ==
    /\ now = StartTime
    /\ trackers \in [Instances -> {InitTracker(StartTime, d) : d \in FidTimeouts}]
    /\ call = NoCall

\* faulty variant: hasLoggedRef kept in one variable shared by all instances
Set_sharedLogged(i, s) ==
    trackers' = [k \in DOMAIN trackers |->
                   IF k = i THEN s
                   ELSE [trackers[k] EXCEPT !.hasLoggedRef = s.hasLoggedRef]]

\* the refs and the state of instance i become s; no other instance has them
Set(i, s) == trackers' = [trackers EXCEPT ![i] = s]

\* a timer of some instance is pending and not yet due
TimerAhead == \E i \in DOMAIN trackers : \E timer \in trackers[i].timers : timer.due > now

\* time passes (until the last pending timer is due, at least)
Tick ==
    /\ now < StartTime + MaxTicks * TickMs \/ TimerAhead
    /\ now' = now + TickMs
    /\ UNCHANGED <<trackers, call>>

\* React runs the passive effects of the first commit
MountEffects(i) ==
    /\ trackers[i].phase = "rendered"
    /\ Set(i, [firstFrameEffect(trackers[i], now) EXCEPT !.phase = "mounted"])
    /\ UNCHANGED <<now, call>>

\* the host component re-renders; the first-frame effect runs again when one of
\* its dependencies (debug, logPrefix, onMetricsReady) changed
Rerender(i) ==
    /\ trackers[i].phase = "mounted"
    /\ trackers[i].rerenders < MaxRerenders
    /\ \E depsChanged \in BOOLEAN :
         LET s == [trackers[i] EXCEPT !.rerenders = @ + 1]
         IN  Set(i, IF depsChanged THEN firstFrameEffect(s, now) ELSE s)
    /\ UNCHANGED <<now, call>>

\* the oldest queued microtask runs
RunMicrotask(i) ==
    /\ trackers[i].microtasks # <<>>
    /\ \E task \in {Head(trackers[i].microtasks)} :
       \E s \in {[trackers[i] EXCEPT !.microtasks = Tail(@)]} :
         Set(i, IF task.kind = "frame" THEN firstFrameMicrotask(s)
                ELSE firstInputMicrotask(s, now, task))
    /\ UNCHANGED <<now, call>>

\* the host calls markInteractive()
MarkInteractive(i) ==
    /\ trackers[i].markCalls < MaxMarkCalls
    /\ Set(i, markInteractive([trackers[i] EXCEPT !.markCalls = @ + 1], now))
    /\ UNCHANGED <<now, call>>

\* the gesture system asks onStartShouldSetPanResponder or onMoveShouldSetPanResponder
Input(i) ==
    /\ trackers[i].phase # "unmounted"
    /\ trackers[i].inputCalls < MaxInputs
    /\ \E inputType \in {"touch", "scroll"} :
         Set(i, measureFirstInputDelay([trackers[i] EXCEPT !.inputCalls = @ + 1],
                                       now, inputType))
    /\ UNCHANGED <<now, call>>

\* a pending timer whose delay has elapsed fires, in a task of its own: after
\* the microtasks of the earlier tasks, and after the passive effects of the
\* commit during which it was armed
TimeoutFires(i) ==
    /\ trackers[i].microtasks = <<>>
    /\ trackers[i].phase # "rendered"
    /\ \E timer \in trackers[i].timers :
         /\ now >= timer.due
         /\ \E s \in {[trackers[i] EXCEPT !.timers = @ \ {timer}]} :
              Set(i, timeoutCallback(s))
    /\ UNCHANGED <<now, call>>

\* the component unmounts
Unmount(i) ==
    /\ trackers[i].phase = "mounted"
    /\ Set(i, [cleanup(trackers[i]) EXCEPT !.phase = "unmounted"])
    /\ UNCHANGED <<now, call>>

Next ==
    \/ Tick
    \/ \E i \in Instances : MountEffects(i)
    \/ \E i \in Instances : Rerender(i)
    \/ \E i \in Instances : RunMicrotask(i)
    \/ \E i \in Instances : MarkInteractive(i)
    \/ \E i \in Instances : Input(i)
    \/ \E i \in Instances : TimeoutFires(i)
    \/ \E i \in Instances : Unmount(i)

Spec == Init /\ [][Next]_vars

\* ---- two mounted components ----
\* two components that use the hook, mounted in the same commit
Pair == {1, 2}

\* the first component is configured with fidTimeout 0, the second with TickMs
PairInit ==
    /\ now = StartTime
    /\ trackers = [i \in Pair |->
                     InitTracker(StartTime, IF i = 1 THEN 0 ELSE TickMs)]
    /\ call = NoCall

\* how often the two components together have re-rendered, or been given input
PairCount(counter) == trackers[1][counter] + trackers[2][counter]

\* the events of the two hook instances, interleaved in any order
PairNext ==
    \/ Tick
    \/ \E i \in Pair : MountEffects(i)
    \/ \E i \in Pair : PairCount("rerenders") < PairMaxRerenders /\ Rerender(i)
    \/ \E i \in Pair : RunMicrotask(i)
    \/ \E i \in Pair : trackers[i].markCalls < PairMaxMarkCalls /\ MarkInteractive(i)
    \/ \E i \in Pair : PairCount("inputCalls") < PairMaxInputs /\ Input(i)
    \/ \E i \in Pair : TimeoutFires(i)
    \/ \E i \in Pair : Unmount(i)

PairSpec == PairInit /\ [][PairNext]_vars

\* The event loop keeps running: time passes, queued microtasks run and due
\* timers fire.  What the host and the user do (markInteractive, inputs,
\* re-renders, unmount) is not forced.
FairSpec ==
    /\ Spec
    /\ WF_vars(Tick)
    /\ \A i \in Instances : WF_vars(RunMicrotask(i))
    /\ \A i \in Instances : WF_vars(TimeoutFires(i))

---------------------------------------------------------------------------
(* calls of the exported scoring functions *)

\* the { good, poor } pairs on the small grid, good = poor and good > poor included
GridThresholds == {[good |-> g, poor |-> p] : g, p \in 0..MaxThreshold}

\* calculateMetricScore(value, thresholds): every value around the grid against
\* every pair of the grid, and every value up to MaxDurationMs against each of
\* the default pairs
MetricScoreArgs ==
    {<<value, thresholds>> : value \in -1..(MaxThreshold + 1),
                             thresholds \in GridThresholds}
      \cup
    {<<value, thresholds>> : value \in -1..MaxDurationMs,
                             thresholds \in {DEFAULT_THRESHOLDS.ttff,
                                             DEFAULT_THRESHOLDS.tti,
                                             DEFAULT_THRESHOLDS.fid}}

\* getScoreCategory(score)
CategoryArgs == {<<score>> : score \in -10..110}

\* durations in milliseconds for timeToFirstFrameMs and timeToInteractiveMs
Durations ==
    {-1, 0, 200, 250, 300, 400, 550, 600, 800, 1045, 1480, 1500, 1600}

\* delays in milliseconds for firstInputDelay.firstInputDelayMs
Delays == {0, 30, 50, 88, 100, 150, 200}

\* PerformanceMetrics records: the optional fields absent or present
MetricsArgs ==
    {[timeToFirstFrameMs  |-> ttff,
      mountStartTimeMs    |-> StartTime,
      firstFrameTimeMs    |-> StartTime + ttff,
      timeToInteractiveMs |-> tti,
      interactiveTimeMs   |-> IF tti = None THEN None ELSE Some(StartTime + tti[1]),
      firstInputDelay     |-> fid] :
        ttff \in Durations,
        tti  \in {None} \cup {Some(d) : d \in Durations},
        fid  \in {None} \cup
                 {Some([firstInputDelayMs          |-> d,
                        firstInputTimeMs           |-> StartTime + 2000,
                        inputProcessingStartTimeMs |-> StartTime + 2000 + d,
                        inputType                  |-> "touch"]) : d \in Delays}}

\* custom { good, poor } pairs for calculatePerformanceScore
CustomThresholds == {[good |-> 0, poor |-> 100], [good |-> 250, poor |-> 1250]}

\* the stricter and the looser thresholds of the test "should respect custom
\* thresholds"
STRICT_THRESHOLDS ==
    [ttff |-> [good |-> 200, poor |-> 500],
     tti  |-> [good |-> 300, poor |-> 700],
     fid  |-> [good |-> 30,  poor |-> 100]]

LOOSE_THRESHOLDS ==
    [ttff |-> [good |-> 500, poor |-> 1000],
     tti  |-> [good |-> 800, poor |-> 2000],
     fid  |-> [good |-> 100, poor |-> 300]]

\* PerformanceThresholds: the default, those of the test, and every
\* combination of the custom pairs
ThresholdsArgs ==
    {DEFAULT_THRESHOLDS, STRICT_THRESHOLDS, LOOSE_THRESHOLDS}
      \cup {[ttff |-> a, tti |-> b, fid |-> c] : a, b, c \in CustomThresholds}

\* MetricWeights: the default, those of the test, and the quarter weights
WeightsArgs == {DEFAULT_WEIGHTS, TTFF_WEIGHTED, TTI_WEIGHTED} \cup QuarterWeights

\* calculatePerformanceScore(metrics, thresholds, weights): every metrics
\* record with every thresholds under the default weights and under one
\* custom weights, and with every weights under the default thresholds
PerformanceScoreArgs ==
    {<<m, thresholds, weights>> :
        m \in MetricsArgs, thresholds \in ThresholdsArgs,
        weights \in {DEFAULT_WEIGHTS, [ttff |-> 50, tti |-> 50, fid |-> 0]}}
      \cup
    {<<m, DEFAULT_THRESHOLDS, weights>> : m \in MetricsArgs, weights \in WeightsArgs}

\* one call, not yet made, of an exported scoring function
\* the score of the test "should format score correctly"
TEST_SCORE ==
    [overall |-> 92, breakdown |-> [ttff |-> 100, tti |-> 90, fid |-> 85],
     category |-> "excellent"]

\* scores formatted: every category, sub-scores and overalls of one, two and
\* three digits
FormatScoreArgs ==
    {<<[overall |-> o, breakdown |-> [ttff |-> a, tti |-> b, fid |-> c],
        category |-> cat]>> :
        o \in {0, 7, 45, 92, 100}, a \in {0, 100}, b \in {5, 90},
        c \in {85, 100},
        cat \in {"excellent", "good", "needs-improvement", "poor"}}

ScoringInit ==
    /\ now = StartTime
    /\ trackers = [i \in Instances |-> InitTracker(StartTime, 0)]
    /\ \/ call \in {[fn |-> "calculateMetricScore", args |-> a, result |-> None] :
                      a \in MetricScoreArgs}
       \/ call \in {[fn |-> "getScoreCategory", args |-> a, result |-> None] :
                      a \in CategoryArgs}
       \/ call \in {[fn |-> "calculatePerformanceScore", args |-> a,
                     result |-> None] : a \in PerformanceScoreArgs}
       \/ call \in {[fn |-> "formatScore", args |-> a, result |-> None] :
                      a \in FormatScoreArgs}

\* the call returns the value of the function for its arguments
Return(fn, value) ==
    /\ call.fn = fn
    /\ call.result = None
    /\ call' = [call EXCEPT !.result = Some(value)]
    /\ UNCHANGED <<now, trackers>>

CalculateMetricScore ==
    /\ call.fn = "calculateMetricScore"
    /\ Return("calculateMetricScore",
              calculateMetricScore(call.args[1], call.args[2]))

GetScoreCategory ==
    /\ call.fn = "getScoreCategory"
    /\ Return("getScoreCategory", getScoreCategory(call.args[1]))

CalculatePerformanceScore ==
    /\ call.fn = "calculatePerformanceScore"
    /\ Return("calculatePerformanceScore",
              calculatePerformanceScoreWith(call.args[1], call.args[2],
                                            call.args[3]))

FormatScore ==
    /\ call.fn = "formatScore"
    /\ Return("formatScore", formatScore(call.args[1]))

ScoringNext ==
    \/ CalculateMetricScore
    \/ GetScoreCategory
    \/ CalculatePerformanceScore
    \/ FormatScore

ScoringSpec == ScoringInit /\ [][ScoringNext]_vars

---------------------------------------------------------------------------
(* Properties *)

Reports(s) == Calls(s, "onReport")

\* the instance has reported, and the report carried no first-input data
ReportedWithoutFid(s) ==
    /\ Len(Reports(s)) = 1
    /\ Reports(s)[1].metrics.firstInputDelay = None

\* the instance has reported, and the report carried first-input data
ReportedWithFid(s) ==
    /\ Len(Reports(s)) = 1
    /\ Reports(s)[1].metrics.firstInputDelay # None

\* C1: for one instance, over every interleaving of first-frame capture,
\* markInteractive() calls, inputs, timeout expiry and unmount, onReport is
\* invoked at most once.
C1_ReportAtMostOnce ==
    \A i \in Instances : Len(Reports(trackers[i])) <= 1

\* C1 witness: the timeout reported (no first-input data in the report) and the
\* first-input microtask ran afterwards, so its call of logFinalMetrics was the
\* second finalization attempt.
C1_SecondAttemptIsNoop ==
    \E i \in Instances :
        /\ ReportedWithoutFid(trackers[i])
        /\ trackers[i].firstInputDelayRef # None

\* a step in which the host calls markInteractive() on an instance already marked
LaterMarkCall(i) ==
    /\ trackers'[i].markCalls = trackers[i].markCalls + 1
    /\ trackers[i].interactiveTimeMsRef # None

\* C2: markInteractive() is idempotent: only the first call stamps
\* interactiveTimeMs and timeToInteractiveMs; every later call changes nothing
\* (metrics, score, refs, timers, observers), and once markInteractive() has
\* been called onInteractive has been invoked exactly once.
C2_MarkInteractiveIdempotent ==
    /\ [](\A i \in Instances :
            /\ trackers[i].markCalls = 0
                 => Len(Calls(trackers[i], "onInteractive")) = 0
            /\ trackers[i].markCalls >= 1
                 => /\ Len(Calls(trackers[i], "onInteractive")) = 1
                    /\ trackers[i].interactiveTimeMsRef # None)
    /\ [][\A i \in Instances :
            LaterMarkCall(i)
              => trackers'[i] = [trackers[i] EXCEPT !.markCalls = @ + 1]]_vars

\* C2 witness: markInteractive() was called twice, the second time later than
\* the first stamp.
C2_CalledTwice ==
    \E i \in Instances :
        /\ trackers[i].markCalls = 2
        /\ trackers[i].interactiveTimeMsRef # None
        /\ now > trackers[i].interactiveTimeMsRef[1]
        /\ Len(Calls(trackers[i], "onInteractive")) = 1

\* the first-frame microtask has run: onMetricsReady was invoked with the
\* initial metrics (the only onMetricsReady call without first-input data)
FirstFrameCaptured(s) ==
    \E k \in 1..Len(s.observed) :
        /\ s.observed[k].cb = "onMetricsReady"
        /\ s.observed[k].metrics.firstInputDelay = None

\* a step in which a timer of instance i fires
TimeoutFiresStep(i) ==
    /\ trackers[i].microtasks = <<>>
    /\ trackers'[i].microtasks = <<>>
    /\ trackers'[i].phase = trackers[i].phase
    /\ trackers'[i].timers # trackers[i].timers
    /\ trackers'[i].timers \subseteq trackers[i].timers

\* C3: when the timeout fires after first-frame capture has completed and
\* markInteractive() was called, and no input has arrived, onReport is invoked
\* in that step with metrics that have timeToFirstFrameMs set and no
\* firstInputDelay, and with the score of those metrics (overall and category).
C3_TimeoutFinalizes ==
    [][\A i \in Instances :
         LET s == trackers[i]
             r == trackers'[i].observed[Len(trackers'[i].observed)]
         IN  (/\ TimeoutFiresStep(i)
              /\ FirstFrameCaptured(s)
              /\ s.interactiveTimeMsRef # None
              /\ ~s.hasRecordedFirstInputRef)
             => /\ trackers'[i].observed = Append(s.observed, r)
                /\ r.cb = "onReport"
                /\ r.metrics.timeToFirstFrameMs
                     = s.firstFrameTimeMsRef[1] - s.mountStartTimeMsRef
                /\ r.metrics.firstInputDelay = None
                /\ r.score = Some(calculatePerformanceScore(r.metrics))
                /\ r.score[1].overall \in 0..100
                /\ r.score[1].category
                     \in {"excellent", "good", "needs-improvement", "poor"}
                /\ trackers'[i].hasLoggedRef]_vars

\* C3 witness: the timeout reported for an instance that was marked interactive
\* and never received an input.
C3_TimeoutReported ==
    \E i \in Instances :
        /\ ReportedWithoutFid(trackers[i])
        /\ FirstFrameCaptured(trackers[i])
        /\ trackers[i].inputCalls = 0
        /\ trackers[i].interactiveTimeMsRef # None
        /\ now >= trackers[i].interactiveTimeMsRef[1] + trackers[i].fidTimeout

\* a step in which the microtask of the first input runs
FirstInputMicrotaskStep(i) ==
    /\ trackers[i].microtasks # <<>>
    /\ Head(trackers[i].microtasks).kind = "fid"
    /\ trackers'[i].microtasks = Tail(trackers[i].microtasks)

\* C4: when the first input is processed after first-frame capture and before
\* any report, onReport is invoked in that step with firstInputDelay present
\* and the pending timeout is cancelled; after a report with firstInputDelay no
\* timer is pending and onReport has been invoked once, so nothing reports at
\* the time the timeout would have fired.
C4_InputFinalizes ==
    /\ [](\A i \in Instances :
            ReportedWithFid(trackers[i])
              => /\ trackers[i].timers = {}
                 /\ trackers[i].fidTimeoutRef = None)
    /\ [][\A i \in Instances :
            LET s == trackers[i]
                r == trackers'[i].observed[Len(trackers'[i].observed)]
            IN  (/\ FirstInputMicrotaskStep(i)
                 /\ FirstFrameCaptured(s)
                 /\ ~s.hasLoggedRef)
                => /\ Len(trackers'[i].observed) = Len(s.observed) + 2
                   /\ r.cb = "onReport"
                   /\ r.metrics.firstInputDelay # None
                   /\ r.metrics.firstInputDelay[1].firstInputTimeMs
                        = Head(s.microtasks).inputTime
                   /\ trackers'[i].timers = {}
                   /\ trackers'[i].fidTimeoutRef = None]_vars

\* C4 witness: an input that arrived while the timeout was armed was reported,
\* and the time at which the timeout would have fired has come.
C4_InputReportedTimerDue ==
    \E i \in Instances :
        LET s == trackers[i]
        IN  /\ ReportedWithFid(s)
            /\ FirstFrameCaptured(s)
            /\ s.timerSeq = 1
            /\ s.interactiveTimeMsRef # None
            /\ s.firstInputDelayRef[1].firstInputTimeMs >= s.interactiveTimeMsRef[1]
            /\ s.fidTimeout > 0
            /\ s.firstInputDelayRef[1].inputProcessingStartTimeMs
                 < s.interactiveTimeMsRef[1] + s.fidTimeout
            /\ now >= s.interactiveTimeMsRef[1] + s.fidTimeout

\* the first-input microtasks still queued
QueuedInputs(s) == SelectSeq(s.microtasks, LAMBDA task : task.kind = "fid")

\* a step in which the gesture system delivers an input to instance i
InputStep(i) == trackers'[i].inputCalls = trackers[i].inputCalls + 1

\* C5: only the first input is recorded: at most one first-input measurement
\* is ever started, the FirstInputDelayMetrics it creates carries the time and
\* type of that first event and never changes afterwards, and every later
\* input event changes no state and notifies no observer.
C5_OnlyFirstInputRecorded ==
    /\ [](\A i \in Instances :
            LET s == trackers[i]
            IN  /\ Len(QueuedInputs(s))
                     + (IF s.firstInputDelayRef # None THEN 1 ELSE 0)
                     = (IF s.hasRecordedFirstInputRef THEN 1 ELSE 0)
                /\ s.hasRecordedFirstInputRef <=> s.inputCalls >= 1)
    /\ [][\A i \in Instances :
            LET s == trackers[i]
            IN  /\ (InputStep(i) /\ s.inputCalls = 0)
                     => /\ Len(QueuedInputs(trackers'[i])) = 1
                        /\ QueuedInputs(trackers'[i])[1].inputTime = now
                        /\ trackers'[i].observed = s.observed
                /\ (InputStep(i) /\ s.inputCalls >= 1)
                     => trackers'[i] = [s EXCEPT !.inputCalls = @ + 1]
                /\ FirstInputMicrotaskStep(i)
                     => /\ trackers'[i].firstInputDelayRef # None
                        /\ trackers'[i].firstInputDelayRef[1].firstInputTimeMs
                             = Head(s.microtasks).inputTime
                        /\ trackers'[i].firstInputDelayRef[1].inputType
                             = Head(s.microtasks).inputType
                /\ s.firstInputDelayRef # None
                     => trackers'[i].firstInputDelayRef = s.firstInputDelayRef]_vars

\* C5 witness: a second input arrived, later than the first, after the first
\* had been recorded.
C5_SecondInputIgnored ==
    \E i \in Instances :
        /\ trackers[i].inputCalls = 2
        /\ trackers[i].firstInputDelayRef # None
        /\ now > trackers[i].firstInputDelayRef[1].inputProcessingStartTimeMs

\* C6: unmounting cancels the pending timer: a timer that is pending while the
\* instance is unmounted was either already pending in the unmounted phase or
\* was armed in this very step, so no timer armed before the unmount survives
\* it, none of them fires, and none invokes onReport.
C6_UnmountCancelsTimer ==
    [][\A i \in Instances :
         LET s == trackers[i]
         IN  /\ (s.phase = "mounted" /\ trackers'[i].phase = "unmounted")
                  => /\ trackers'[i].timers = {}
                     /\ trackers'[i].observed = s.observed
             /\ trackers'[i].phase = "unmounted"
                  => \A timer \in trackers'[i].timers :
                        \/ s.phase = "unmounted" /\ timer \in s.timers
                        \/ timer.id > s.timerSeq]_vars

\* C6 witness: markInteractive() armed the timeout after first-frame capture,
\* the instance was unmounted before it fired, its time has come and onReport
\* was not invoked.
C6_UnmountedTimerNeverFired ==
    \E i \in Instances :
        LET s == trackers[i]
        IN  /\ s.phase = "unmounted"
            /\ s.timerSeq = 1
            /\ s.fidTimeoutRef # None
            /\ s.timers = {}
            /\ s.interactiveTimeMsRef # None
            /\ s.firstFrameTimeMsRef # None
            /\ s.interactiveTimeMsRef[1] > s.firstFrameTimeMsRef[1]
            /\ now >= s.interactiveTimeMsRef[1] + s.fidTimeout
            /\ Len(Reports(s)) = 0
            /\ ~s.hasLoggedRef

\* C7 (as claimed): once an instance is unmounted, no observer is invoked for
\* it in any continuation: not by a microtask queued before the unmount, not
\* by a later markInteractive() call, not by a timer armed after the unmount.
C7_NoObserverAfterUnmount ==
    [][\A i \in Instances :
         trackers[i].phase = "unmounted"
           => trackers'[i].observed = trackers[i].observed]_vars

\* C8 (as claimed): once onReport has been invoked, the metrics record and the
\* score never change again: they stay those that were reported.
C8_MetricsFrozenAfterReport ==
    \A i \in Instances :
        LET s == trackers[i]
        IN  Len(Reports(s)) >= 1
              => /\ s.metrics = Some(Reports(s)[1].metrics)
                 /\ s.metricsRef = Some(Reports(s)[1].metrics)
                 /\ s.score = Reports(s)[1].score

\* C9 (as claimed): the two finalization triggers exclude each other: a first
\* input processed after the report records no firstInputDelay and invokes
\* neither onMetricsReady nor onReport, and after a report made by the input
\* no timeout is left to run finalization.
C9_TriggersMutuallyExclusive ==
    /\ [](\A i \in Instances :
            ReportedWithFid(trackers[i]) => trackers[i].timers = {})
    /\ [][\A i \in Instances :
            LET s == trackers[i]
            IN  (FirstInputMicrotaskStep(i) /\ s.hasLoggedRef)
                  => /\ trackers'[i].firstInputDelayRef = None
                     /\ trackers'[i].metrics = s.metrics
                     /\ trackers'[i].observed = s.observed]_vars

\* C10 (as claimed): every instance that completes first-frame capture, is not
\* unmounted and receives no input eventually invokes onReport, also when
\* markInteractive() is never called.
C10_ReportEventually ==
    \A i \in Instances :
        FirstFrameCaptured(trackers[i])
          ~> \/ Len(Reports(trackers[i])) = 1
             \/ trackers[i].phase = "unmounted"
             \/ trackers[i].inputCalls >= 1

\* C10 (amended): the timeout is armed by markInteractive() alone; every
\* instance whose first-frame capture has completed while that timeout is
\* pending eventually invokes onReport, unless it is unmounted.
C10_ReportEventuallyOnceArmed ==
    /\ [](\A i \in Instances :
            trackers[i].interactiveTimeMsRef = None => trackers[i].timers = {})
    /\ \A i \in Instances :
         (FirstFrameCaptured(trackers[i]) /\ trackers[i].timers # {})
           ~> \/ Len(Reports(trackers[i])) = 1
              \/ trackers[i].phase = "unmounted"

\* C10 witness: a mounted instance that never received an input was marked
\* interactive after its first-frame capture and the timeout made the report.
C10_ArmedTimeoutReported ==
    \E i \in Instances :
        LET s == trackers[i]
        IN  /\ s.phase = "mounted"
            /\ FirstFrameCaptured(s)
            /\ s.inputCalls = 0
            /\ s.timerSeq = 1
            /\ s.interactiveTimeMsRef[1] > s.firstFrameTimeMsRef[1]
            /\ ReportedWithoutFid(s)

\* the positions in the observer log of an instance at which cb was invoked
CallsAt(s, cb) == {k \in 1..Len(s.observed) : s.observed[k].cb = cb}

\* C11: the metrics passed to onReport carry the TTI data exactly when
\* markInteractive() was called before the report: then interactiveTimeMs is
\* the time stamped by that call and timeToInteractiveMs = interactiveTimeMs -
\* mountStartTimeMs, also when the metrics record had lost them; when
\* markInteractive() was not called before it, the report was made by the
\* first-input path and both fields are absent.
C11_ReportCarriesTTI ==
    \A i \in Instances :
        LET s == trackers[i]
        IN  \A k \in CallsAt(s, "onReport") :
              LET r      == s.observed[k].metrics
                  marked == {j \in CallsAt(s, "onInteractive") : j < k}
              IN  /\ r.mountStartTimeMs = s.mountStartTimeMsRef
                  /\ marked # {}
                       => /\ r.interactiveTimeMs # None
                          /\ \A j \in marked :
                               r.interactiveTimeMs
                                 = s.observed[j].metrics.interactiveTimeMs
                          /\ r.timeToInteractiveMs
                               = Some(r.interactiveTimeMs[1] - r.mountStartTimeMs)
                  /\ marked = {}
                       => /\ r.timeToInteractiveMs = None
                          /\ r.interactiveTimeMs = None
                          /\ r.firstInputDelay # None

\* C11 witness: markInteractive() was called, the first-frame microtask then
\* replaced the metrics record by one without TTI data, and the report made
\* afterwards carries the TTI data again.
C11_LostTTIReconciled ==
    \E i \in Instances :
        LET s == trackers[i]
        IN  \E j \in CallsAt(s, "onInteractive") :
            \E k \in CallsAt(s, "onMetricsReady") :
            \E l \in CallsAt(s, "onReport") :
                /\ j < k /\ k < l
                /\ s.observed[k].metrics.timeToInteractiveMs = None
                /\ s.observed[l].metrics.timeToInteractiveMs
                     = s.observed[j].metrics.timeToInteractiveMs

\* C12: both gesture predicates (touch-start and move-start) return false on
\* every invocation: for the first input, for a later input and for an input
\* that arrives after the report, so the tracker never claims a gesture.
C12_GestureNeverClaimed ==
    /\ [](\A i \in Instances :
            /\ trackers[i].lastGestureResult \in {None, Some(FALSE)}
            /\ trackers[i].inputCalls >= 1
                 => trackers[i].lastGestureResult = Some(FALSE))
    /\ [][\A i \in Instances :
            InputStep(i) => trackers'[i].lastGestureResult = Some(FALSE)]_vars

\* C12 witness: the timeout made the report, then a first input and a later
\* input arrived, and the last predicate called returned false.
C12_DeclinedAfterReport ==
    \E i \in Instances :
        /\ ReportedWithoutFid(trackers[i])
        /\ trackers[i].firstInputDelayRef # None
        /\ trackers[i].firstInputDelayRef[1].firstInputTimeMs
             >= trackers[i].interactiveTimeMsRef[1] + trackers[i].fidTimeout
        /\ trackers[i].inputCalls = 2
        /\ trackers[i].lastGestureResult = Some(FALSE)

\* a step in which the microtask of the first-frame effect runs
FirstFrameMicrotaskStep(i) ==
    /\ trackers[i].microtasks # <<>>
    /\ Head(trackers[i].microtasks).kind = "frame"
    /\ trackers'[i].microtasks = Tail(trackers[i].microtasks)

\* C13: the exposed metrics and score are both null at creation, and stay null
\* until markInteractive() is called or the first-frame microtask runs; when
\* that microtask runs it sets metrics to {timeToFirstFrameMs =
\* firstFrameTimeMs - mountStartTimeMs, mountStartTimeMs, firstFrameTimeMs}
\* and nothing else, with timeToFirstFrameMs >= 0, sets the score of those
\* metrics, and invokes onMetricsReady with those metrics.
C13_FirstFrameCapture ==
    /\ [](\A i \in Instances :
            LET s == trackers[i]
            IN  (s.markCalls = 0 /\ ~FirstFrameCaptured(s))
                  => s.metrics = None /\ s.score = None)
    /\ [][\A i \in Instances :
            LET s == trackers[i]
                m == trackers'[i].metrics[1]
            IN  FirstFrameMicrotaskStep(i)
                  => /\ trackers'[i].metrics # None
                     /\ m.mountStartTimeMs = s.mountStartTimeMsRef
                     /\ m.firstFrameTimeMs = s.firstFrameTimeMsRef[1]
                     /\ m.timeToFirstFrameMs
                          = m.firstFrameTimeMs - m.mountStartTimeMs
                     /\ m.timeToFirstFrameMs >= 0
                     /\ m.timeToInteractiveMs = None
                     /\ m.interactiveTimeMs = None
                     /\ m.firstInputDelay = None
                     /\ trackers'[i].metricsRef = Some(m)
                     /\ trackers'[i].score = Some(calculatePerformanceScore(m))
                     /\ trackers'[i].observed
                          = Append(s.observed, Call("onMetricsReady", m, None))]_vars

\* C13 witness: the first frame came one clock step after the first render and
\* the first-frame microtask has run: it is the only observer call so far.
C13_FirstFrameMeasured ==
    \E i \in Instances :
        LET s == trackers[i]
        IN  /\ s.metrics # None
            /\ s.score # None
            /\ s.metrics[1].timeToFirstFrameMs = TickMs
            /\ Len(s.observed) = 1
            /\ s.observed[1] = Call("onMetricsReady", s.metrics[1], None)

\* the call of fn has returned
Returned(fn) == call.fn = fn /\ call.result # None

\* C14: calculateMetricScore, for every integer value and every thresholds
\* with good < poor, returns 100 when value <= good and 0 when value >= poor,
\* both bounds inclusive.
C14_MetricScoreBoundaries ==
    Returned("calculateMetricScore")
      => LET value      == call.args[1]
             thresholds == call.args[2]
         IN  thresholds.good < thresholds.poor
               => /\ value <= thresholds.good => call.result = Some(100)
                  /\ value >= thresholds.poor => call.result = Some(0)

\* C14 witness: the value that equals the poor threshold of the default TTI
\* thresholds has been scored.
C14_AtPoorScored ==
    /\ Returned("calculateMetricScore")
    /\ call.args[2] = DEFAULT_THRESHOLDS.tti
    /\ call.args[1] = DEFAULT_THRESHOLDS.tti.poor
    /\ call.result = Some(0)

\* C15 (as claimed): for good < value < poor calculateMetricScore returns
\* round(100 - (value - good) * 100 / (poor - good)) with halves rounded up:
\* the midpoint of [good, poor] scores 50, one quarter of the way 75, three
\* quarters 25, and the next value never scores higher.
C15_MetricScoreInterpolation ==
    Returned("calculateMetricScore")
      => LET value      == call.args[1]
             thresholds == call.args[2]
             range      == thresholds.poor - thresholds.good
             position   == value - thresholds.good
         IN  (thresholds.good < value /\ value < thresholds.poor)
               => /\ call.result
                       = Some(RoundDiv(100 * range - position * 100, range))
                  /\ 2 * position = range => call.result = Some(50)
                  /\ 4 * position = range => call.result = Some(75)
                  /\ 4 * position = 3 * range => call.result = Some(25)
                  /\ calculateMetricScore(value + 1, thresholds) <= call.result[1]

\* the { good, poor } pairs of a PerformanceThresholds are all good < poor
GoodBelowPoor(thresholds) ==
    /\ thresholds.ttff.good < thresholds.ttff.poor
    /\ thresholds.tti.good  < thresholds.tti.poor
    /\ thresholds.fid.good  < thresholds.fid.poor

\* C16: for every metrics record, zero and negative durations included, and
\* every thresholds with good < poor, each breakdown score is an integer in
\* 0..100, and under the default weights overall is an integer in 0..100; so
\* is the result of calculateMetricScore for every value.
C16_ScoresInRange ==
    /\ Returned("calculatePerformanceScore")
         => LET score == call.result[1]
            IN  GoodBelowPoor(call.args[2])
                  => /\ score.breakdown.ttff \in 0..100
                     /\ score.breakdown.tti  \in 0..100
                     /\ score.breakdown.fid  \in 0..100
                     /\ call.args[3] = DEFAULT_WEIGHTS => score.overall \in 0..100
    /\ Returned("calculateMetricScore")
         => (call.args[2].good < call.args[2].poor => call.result[1] \in 0..100)

\* C16 witness: a metrics record with a negative duration and a duration
\* strictly between the thresholds has been scored under custom thresholds.
C16_NegativeDurationScored ==
    /\ Returned("calculatePerformanceScore")
    /\ call.args[1].timeToFirstFrameMs < 0
    /\ call.args[2] # DEFAULT_THRESHOLDS
    /\ call.result[1].breakdown.ttff = 100
    /\ call.result[1].breakdown.tti \in 1..99
    /\ call.result[1].overall \in 1..99

\* C17: with good = poor calculateMetricScore is a step function, 100 if
\* value <= good and 0 otherwise, and one of its two early returns is taken
\* for every value, so the division by poor - good = 0 is never evaluated.
C17_DegenerateThresholdsStep ==
    Returned("calculateMetricScore")
      => LET value      == call.args[1]
             thresholds == call.args[2]
         IN  thresholds.good = thresholds.poor
               => /\ call.result
                       = Some(IF value <= thresholds.good THEN 100 ELSE 0)
                  /\ isGood(value, thresholds) \/ isPoor(value, thresholds)

\* C17 witness: the value that equals both thresholds has been scored.
C17_AtDegenerateThreshold ==
    /\ Returned("calculateMetricScore")
    /\ call.args[2].good = call.args[2].poor
    /\ call.args[1] = call.args[2].good
    /\ call.result = Some(100)

\* the category that the README's table gives to a score
CategoryMatches(score, category) ==
    /\ category \in {"excellent", "good", "needs-improvement", "poor"}
    /\ category = "excellent"         <=> score >= 90
    /\ category = "good"              <=> score \in 75..89
    /\ category = "needs-improvement" <=> score \in 50..74
    /\ category = "poor"              <=> score < 50

\* C18: getScoreCategory is total, with inclusive lower bounds: a score >= 90
\* is excellent, 75..89 is good, 50..74 is needs-improvement and a score
\* below 50 is poor (90, 89, 75, 74, 50, 49 give excellent, good, good,
\* needs-improvement, needs-improvement, poor); the category of every
\* PerformanceScore is the category of its overall.
C18_CategoryBoundaries ==
    /\ Returned("getScoreCategory")
         => LET score == call.args[1]
            IN  /\ CategoryMatches(score, call.result[1])
                /\ score \in {90}         => call.result = Some("excellent")
                /\ score \in {89, 75}     => call.result = Some("good")
                /\ score \in {74, 50}     => call.result = Some("needs-improvement")
                /\ score = 49             => call.result = Some("poor")
    /\ Returned("calculatePerformanceScore")
         => CategoryMatches(call.result[1].overall, call.result[1].category)

\* C18 witness: the category of the lowest score that is still good has been
\* determined.
C18_LowestGoodCategorized ==
    /\ Returned("getScoreCategory")
    /\ call.args[1] = 75
    /\ call.result = Some("good")

\* C19: when timeToInteractiveMs is absent, breakdown.tti is the score of
\* timeToFirstFrameMs under the TTI thresholds; when it is present, the value
\* 0 included, it is scored as it is.
C19_MissingTTIUsesTTFF ==
    Returned("calculatePerformanceScore")
      => LET m          == call.args[1]
             thresholds == call.args[2]
             score      == call.result[1]
         IN  /\ m.timeToInteractiveMs = None
                  => score.breakdown.tti
                       = calculateMetricScore(m.timeToFirstFrameMs, thresholds.tti)
             /\ m.timeToInteractiveMs # None
                  => score.breakdown.tti
                       = calculateMetricScore(m.timeToInteractiveMs[1], thresholds.tti)

\* C19 witness: a record with a TTI of 0 and a TTFF beyond the poor TTI
\* threshold has been scored under the default thresholds: TTI scores 100.
C19_ZeroTTIScored ==
    /\ Returned("calculatePerformanceScore")
    /\ call.args[2] = DEFAULT_THRESHOLDS
    /\ call.args[1].timeToInteractiveMs = Some(0)
    /\ call.args[1].timeToFirstFrameMs > DEFAULT_THRESHOLDS.tti.poor
    /\ call.result[1].breakdown.tti = 100
    /\ call.result[1].breakdown.ttff = 0

\* C20: for every metrics record without firstInputDelay the FID value scored
\* is 0, and under the default FID thresholds breakdown.fid is 100, whatever
\* the other fields are.
C20_MissingFIDScoresZeroDelay ==
    Returned("calculatePerformanceScore")
      => LET m          == call.args[1]
             thresholds == call.args[2]
             score      == call.result[1]
         IN  m.firstInputDelay = None
               => /\ score.breakdown.fid = calculateMetricScore(0, thresholds.fid)
                  /\ thresholds.fid = DEFAULT_THRESHOLDS.fid
                       => score.breakdown.fid = 100

\* C20 witness: a record without firstInputDelay whose TTFF and TTI are both
\* beyond their poor thresholds has been scored under the default thresholds.
C20_OnlyFIDScores ==
    /\ Returned("calculatePerformanceScore")
    /\ call.args[2] = DEFAULT_THRESHOLDS
    /\ call.args[1].firstInputDelay = None
    /\ call.args[1].timeToFirstFrameMs > DEFAULT_THRESHOLDS.ttff.poor
    /\ call.args[1].timeToInteractiveMs # None
    /\ call.result[1].breakdown = [ttff |-> 0, tti |-> 0, fid |-> 100]
    /\ call.result[1].overall = 30

\* the exact weighted sum of a breakdown, in hundredths
WeightedSum(breakdown, weights) ==
    breakdown.ttff * weights.ttff + breakdown.tti * weights.tti
      + breakdown.fid * weights.fid

DocumentedExampleReturned ==
    /\ Returned("calculatePerformanceScore")
    /\ call.args[1].timeToFirstFrameMs = 250
    /\ call.args[1].timeToInteractiveMs = Some(400)
    /\ call.args[1].firstFrameTimeMs = call.args[1].mountStartTimeMs + 250
    /\ call.args[1].firstInputDelay = None
    /\ call.args[2] = DEFAULT_THRESHOLDS
    /\ call.args[3] = DEFAULT_WEIGHTS

C23_DefaultConfiguration ==
    /\ DEFAULT_WEIGHTS = [ttff |-> 25, tti |-> 45, fid |-> 30]
    /\ DEFAULT_WEIGHTS.ttff + DEFAULT_WEIGHTS.tti + DEFAULT_WEIGHTS.fid = 100
    /\ DEFAULT_THRESHOLDS = [ttff |-> [good |-> 300, poor |-> 800],
                             tti  |-> [good |-> 500, poor |-> 1500],
                             fid  |-> [good |-> 50,  poor |-> 150]]
    /\ GoodBelowPoor(DEFAULT_THRESHOLDS)
    /\ (Returned("calculatePerformanceScore") /\ call.args[3] = DEFAULT_WEIGHTS)
         => LET score == call.result[1]
            IN  (/\ score.breakdown.ttff = score.breakdown.tti
                 /\ score.breakdown.tti = score.breakdown.fid)
                  => score.overall = score.breakdown.ttff

\* C23 witness: a record with all three values present has been scored under
\* the default thresholds and weights, and each sub-score and overall is 100.
C23_DefaultsApplied ==
    /\ Returned("calculatePerformanceScore")
    /\ call.args[2] = DEFAULT_THRESHOLDS
    /\ call.args[3] = DEFAULT_WEIGHTS
    /\ call.args[1].timeToInteractiveMs # None
    /\ call.args[1].firstInputDelay # None
    /\ call.args[1].firstInputDelay[1].firstInputDelayMs
         = DEFAULT_THRESHOLDS.fid.good
    /\ call.result[1].breakdown = [ttff |-> 100, tti |-> 100, fid |-> 100]
    /\ call.result[1].overall = 100

\* the pair b is no stricter than the pair a
PairNoStricter(b, a) == b.good >= a.good /\ b.poor >= a.poor

\* the thresholds b are pointwise no stricter than the thresholds a
NoStricter(b, a) ==
    /\ PairNoStricter(b.ttff, a.ttff)
    /\ PairNoStricter(b.tti, a.tti)
    /\ PairNoStricter(b.fid, a.fid)

\* C24: for fixed metrics and non-negative weights, thresholds B that are
\* pointwise no stricter than thresholds A (both with good < poor) give every
\* breakdown score and the overall score at least the value they have under
\* A; so it is for one metric with calculateMetricScore.
C24_LooserThresholdsScoreHigher ==
    /\ Returned("calculatePerformanceScore")
         => LET m     == call.args[1]
                a     == call.args[2]
                score == call.result[1]
            IN  \A b \in ThresholdsArgs :
                  (GoodBelowPoor(a) /\ GoodBelowPoor(b) /\ NoStricter(b, a))
                    => LET looser == calculatePerformanceScoreWith(m, b, call.args[3])
                       IN  /\ looser.breakdown.ttff >= score.breakdown.ttff
                           /\ looser.breakdown.tti  >= score.breakdown.tti
                           /\ looser.breakdown.fid  >= score.breakdown.fid
                           /\ looser.overall >= score.overall
    /\ Returned("calculateMetricScore")
         => LET a == call.args[2]
            IN  \A b \in GridThresholds \cup {DEFAULT_THRESHOLDS.tti} :
                  (a.good < a.poor /\ b.good < b.poor /\ PairNoStricter(b, a))
                    => calculateMetricScore(call.args[1], b) >= call.result[1]

\* C24 witness: the metrics of the test "should respect custom thresholds"
\* (TTFF 400, TTI 600, no first input) have been scored under the stricter
\* thresholds, and the looser thresholds give them a higher overall.
C24_StrictScoredBelowLoose ==
    /\ Returned("calculatePerformanceScore")
    /\ call.args[1].timeToFirstFrameMs = 400
    /\ call.args[1].timeToInteractiveMs = Some(600)
    /\ call.args[1].firstInputDelay = None
    /\ call.args[2] = STRICT_THRESHOLDS
    /\ call.args[3] = DEFAULT_WEIGHTS
    /\ calculatePerformanceScoreWith(call.args[1], LOOSE_THRESHOLDS,
                                     DEFAULT_WEIGHTS).overall
         > call.result[1].overall

\* the weights v are the weights w with some weight moved from a metric with
\* a lower sub-score to a metric with a higher sub-score
WeightMovedUp(w, v, breakdown) ==
    \E x, y \in {"ttff", "tti", "fid"} :
        /\ x # y
        /\ v[x] < w[x]
        /\ v[y] > w[y]
        /\ v[x] + v[y] = w[x] + w[y]
        /\ \A z \in {"ttff", "tti", "fid"} \ {x, y} : v[z] = w[z]
        /\ breakdown[x] < breakdown[y]

\* C25: for fixed metrics and thresholds, moving weight from a metric with a
\* lower sub-score to a metric with a higher sub-score never lowers overall;
\* when only TTFF scores 100 and TTI and FID score 0, overall is
\* round(100 * weights.ttff), so the weights { 0.8, 0.1, 0.1 } give a strictly
\* higher overall than { 0.1, 0.8, 0.1 }.
C25_WeightsRespected ==
    Returned("calculatePerformanceScore")
      => LET w     == call.args[3]
             score == call.result[1]
             b     == score.breakdown
         IN  /\ \A v \in WeightsArgs :
                  WeightMovedUp(w, v, b)
                    => weightedOverall(b.ttff, b.tti, b.fid, v) >= score.overall
             /\ b = [ttff |-> 100, tti |-> 0, fid |-> 0]
                  => /\ score.overall = w.ttff
                     /\ w = TTI_WEIGHTED
                          => weightedOverall(b.ttff, b.tti, b.fid, TTFF_WEIGHTED)
                               > score.overall

\* C25 witness: the metrics of the test "should respect custom weights" (TTFF
\* good, TTI and FID poor) have been scored with the weight on TTI: overall 10.
C25_TTIWeightedScored ==
    /\ Returned("calculatePerformanceScore")
    /\ call.args[2] = DEFAULT_THRESHOLDS
    /\ call.args[3] = TTI_WEIGHTED
    /\ call.args[1].timeToInteractiveMs = Some(1500)
    /\ call.args[1].firstInputDelay # None
    /\ call.args[1].firstInputDelay[1].firstInputDelayMs = 150
    /\ call.result[1].breakdown = [ttff |-> 100, tti |-> 0, fid |-> 0]
    /\ call.result[1].overall = 10

\* the category with only its first character in upper case
Capitalized(category) ==
    CASE category = "excellent" -> "Excellent"
      [] category = "good" -> "Good"
      [] category = "needs-improvement" -> "Needs-improvement"
      [] category = "poor" -> "Poor"

\* C26: formatScore returns "{overall} ({Category}) - TTFF: {ttff}, TTI: {tti},
\* FID: {fid}" with only the first character of the category upper-cased; for
\* overall 92, breakdown 100/90/85 and category excellent the result is
\* "92 (Excellent) - TTFF: 100, TTI: 90, FID: 85".
C26_FormatScore ==
    Returned("formatScore")
      => LET score == call.args[1]
         IN  /\ call.result[1] =
                  numberToString(score.overall) \o " ("
                    \o Capitalized(score.category) \o ") - TTFF: "
                    \o numberToString(score.breakdown.ttff) \o ", TTI: "
                    \o numberToString(score.breakdown.tti) \o ", FID: "
                    \o numberToString(score.breakdown.fid)
             /\ score = TEST_SCORE
                  => call.result[1]
                       = "92 (Excellent) - TTFF: 100, TTI: 90, FID: 85"
             /\ score = [TEST_SCORE EXCEPT !.overall = 45,
                                           !.category = "needs-improvement"]
                  => call.result[1]
                       = "45 (Needs-improvement) - TTFF: 100, TTI: 90, FID: 85"

\* C26 witness: a needs-improvement score has been formatted, its label
\* capitalized at the first character only.
C26_NeedsImprovementFormatted ==
    /\ Returned("formatScore")
    /\ call.args[1].category = "needs-improvement"
    /\ call.args[1].overall = 45
    /\ call.result[1] = "45 (Needs-improvement) - TTFF: 100, TTI: 90, FID: 85"

\* what the claim names of an instance: metrics, score, guard flags, timer, and
\* the observer calls made so far
Owned(s) ==
    [metrics                  |-> s.metrics,
     score                    |-> s.score,
     metricsRef               |-> s.metricsRef,
     hasLoggedRef             |-> s.hasLoggedRef,
     hasRecordedFirstInputRef |-> s.hasRecordedFirstInputRef,
     interactiveTimeMsRef     |-> s.interactiveTimeMsRef,
     fidTimeoutRef            |-> s.fidTimeoutRef,
     timers                   |-> s.timers,
     observed                 |-> s.observed]

\* C27: with two tracker instances, an event on one (first-frame capture,
\* markInteractive, input, timeout, unmount) leaves the other instance's
\* metrics, score, guard flags and timer unchanged and invokes none of the
\* other instance's observers.
C27_InstancesIndependent ==
    [][\A i \in Pair : \A j \in Pair \ {i} :
          trackers'[i] # trackers[i]
            => /\ Owned(trackers'[j]) = Owned(trackers[j])
               /\ trackers'[j] = trackers[j]]_vars

\* C27 witness: the first instance has reported after its timeout while the
\* second, marked interactive as well, still waits with its timer pending and
\* has not reported.
C27_OneReportedOtherPending ==
    /\ DOMAIN trackers = Pair
    /\ trackers[1].hasLoggedRef
    /\ Len(Calls(trackers[1], "onReport")) = 1
    /\ trackers[1].timers = {}
    /\ ~trackers[2].hasLoggedRef
    /\ trackers[2].interactiveTimeMsRef # None
    /\ trackers[2].timers # {}
    /\ Calls(trackers[2], "onReport") = <<>>

\* C28: metrics and score are both null or both non-null, and a non-null score
\* is calculatePerformanceScore(metrics) under the default thresholds and
\* weights: every operation that changes metrics recomputes the score in the
\* same step.
C28_ScoreDerivedFromMetrics ==
    \A i \in Instances :
        /\ trackers[i].metrics = None <=> trackers[i].score = None
        /\ trackers[i].metrics # None
             => trackers[i].score
                  = Some(calculatePerformanceScoreWith(trackers[i].metrics[1],
                                                       DEFAULT_THRESHOLDS,
                                                       DEFAULT_WEIGHTS))

\* C28 witness: after the report a first input was captured with a delay of
\* one tick, and the score shows it (FID sub-score 0 next to a TTI sub-score).
C28_LateInputRescored ==
    \E i \in Instances :
        /\ trackers[i].hasLoggedRef
        /\ Len(Calls(trackers[i], "onReport")) = 1
        /\ Calls(trackers[i], "onReport")[1].metrics.firstInputDelay = None
        /\ trackers[i].metrics # None
        /\ trackers[i].metrics[1].firstInputDelay # None
        /\ trackers[i].metrics[1].firstInputDelay[1].firstInputDelayMs = TickMs
        /\ trackers[i].score # None
        /\ trackers[i].score[1].breakdown.fid = 0

\* C29: markInteractive() called before the deferred first-frame capture has
\* run is valid and its result is kept: timeToInteractiveMs and
\* interactiveTimeMs, once present in the metrics record, stay present with
\* the same values in every later state, in particular after the first-frame
\* capture subsequently runs.
C29_InteractiveFieldsKept ==
    [][\A i \in Instances :
          (/\ trackers[i].metrics # None
           /\ trackers[i].metrics[1].timeToInteractiveMs # None)
            => /\ trackers'[i].metrics # None
               /\ trackers'[i].metrics[1].timeToInteractiveMs
                    = trackers[i].metrics[1].timeToInteractiveMs
               /\ trackers'[i].metrics[1].interactiveTimeMs
                    = trackers[i].metrics[1].interactiveTimeMs]_vars

\* the first-frame fields of the metrics record of s are the captured ones
FirstFrameFieldsReal(s) ==
    s.metrics # None
      => /\ s.firstFrameTimeMsRef # None
         /\ s.metrics[1].firstFrameTimeMs = s.firstFrameTimeMsRef[1]
         /\ s.metrics[1].timeToFirstFrameMs
              = s.metrics[1].firstFrameTimeMs - s.metrics[1].mountStartTimeMs

\* C30: in every state where metrics is non-null, firstFrameTimeMs is the
\* captured first-frame timestamp and timeToFirstFrameMs is firstFrameTimeMs
\* minus mountStartTimeMs, and neither value changes in any later state: no
\* state exposes a placeholder such as 0 that is later replaced.
C30_FirstFrameFieldsSetOnce ==
    /\ [](\A i \in Instances : FirstFrameFieldsReal(trackers[i]))
    /\ [][\A i \in Instances :
            trackers[i].metrics # None
              => /\ trackers'[i].metrics # None
                 /\ trackers'[i].metrics[1].firstFrameTimeMs
                      = trackers[i].metrics[1].firstFrameTimeMs
                 /\ trackers'[i].metrics[1].timeToFirstFrameMs
                      = trackers[i].metrics[1].timeToFirstFrameMs]_vars

\* C31: onReport is never invoked before the first-frame capture has
\* completed: the metrics passed to onReport carry the captured
\* firstFrameTimeMs, and timeToFirstFrameMs = firstFrameTimeMs -
\* mountStartTimeMs, also when markInteractive() populated the metrics record
\* before the first-frame capture ran.
C31_ReportAfterFirstFrame ==
    \A i \in Instances :
        LET s == trackers[i]
        IN  \A k \in CallsAt(s, "onReport") :
                LET m == s.observed[k].metrics
                IN  /\ \E j \in 1..(k - 1) :
                          /\ s.observed[j].cb = "onMetricsReady"
                          /\ s.observed[j].metrics.firstInputDelay = None
                    /\ s.firstFrameTimeMsRef # None
                    /\ m.firstFrameTimeMs = s.firstFrameTimeMsRef[1]
                    /\ m.timeToFirstFrameMs
                         = m.firstFrameTimeMs - m.mountStartTimeMs

\* a step in which the host calls markInteractive() on instance i
MarkInteractiveStep(i) == trackers'[i].markCalls = trackers[i].markCalls + 1

\* C32: markInteractive() called after a first input was captured preserves
\* the first-input data: the metrics record after the call has the same
\* firstInputDelay as before (the captured one), and the first call adds only
\* timeToInteractiveMs and interactiveTimeMs to the record.
C32_MarkInteractiveKeepsFirstInput ==
    [][\A i \in Instances :
          LET s  == trackers[i]
              m  == s.metrics[1]
              m2 == trackers'[i].metrics[1]
          IN  (MarkInteractiveStep(i) /\ s.firstInputDelayRef # None)
                => IF s.interactiveTimeMsRef = None
                   THEN /\ trackers'[i].metrics # None
                        /\ m2.firstInputDelay = s.firstInputDelayRef
                        /\ m2.interactiveTimeMs = Some(now)
                        /\ m2.timeToInteractiveMs
                             = Some(now - s.mountStartTimeMsRef)
                        /\ s.metrics # None
                             => /\ m.firstInputDelay # None
                                  => m2.firstInputDelay = m.firstInputDelay
                                /\ m2.timeToFirstFrameMs = m.timeToFirstFrameMs
                                /\ m2.firstFrameTimeMs = m.firstFrameTimeMs
                                /\ m2.mountStartTimeMs = m.mountStartTimeMs
                   ELSE trackers'[i].metrics = s.metrics]_vars

\* C32 witness: the first input was captured and reported before
\* markInteractive() was called; onInteractive received the metrics with the
\* captured first-input data and the TTI data.
C32_MarkedAfterInputReport ==
    \E i \in Instances :
        LET s == trackers[i]
        IN  \E k \in CallsAt(s, "onInteractive") :
                /\ \E j \in 1..(k - 1) : s.observed[j].cb = "onReport"
                /\ s.observed[k].metrics.firstInputDelay # None
                /\ s.observed[k].metrics.firstInputDelay = s.firstInputDelayRef
                /\ s.observed[k].metrics.timeToInteractiveMs # None
                /\ s.metrics = Some(s.observed[k].metrics)

\* C33: at most one finalization timeout is pending; a timeout is armed only
\* by the first markInteractive() call and only if finalization has not yet
\* occurred; once finalization has occurred no timeout is pending and none is
\* armed afterwards: a markInteractive() call after an input-triggered report
\* arms nothing and produces no second report.
C33_TimerDiscipline ==
    /\ [](\A i \in Instances :
            /\ Cardinality(trackers[i].timers) <= 1
            /\ trackers[i].hasLoggedRef => trackers[i].timers = {}
            /\ Len(Reports(trackers[i])) <= 1)
    /\ [][\A i \in Instances :
            LET s == trackers[i]
            IN  /\ ~(trackers'[i].timers \subseteq s.timers)
                     => /\ MarkInteractiveStep(i)
                        /\ s.interactiveTimeMsRef = None
                        /\ ~s.hasLoggedRef
                        /\ Reports(s) = <<>>
                /\ (MarkInteractiveStep(i) /\ s.hasLoggedRef)
                     => /\ trackers'[i].timers = {}
                        /\ trackers'[i].timerSeq = s.timerSeq
                        /\ Reports(trackers'[i]) = Reports(s)]_vars

\* C33 witness: the first input was reported before markInteractive() was
\* called; the call was made, no timer was ever armed, and time has passed
\* without a second report.
C33_NothingArmedAfterInputReport ==
    \E i \in Instances :
        LET s == trackers[i]
        IN  /\ ReportedWithFid(s)
            /\ s.interactiveTimeMsRef # None
            /\ Reports(s)[1].metrics.timeToInteractiveMs = None
            /\ s.timerSeq = 0
            /\ s.timers = {}
            /\ now > s.interactiveTimeMsRef[1]

\* the first input is stamped when the gesture predicate is called
FirstInputStamped(i) ==
    LET s == trackers[i]
    IN  (InputStep(i) /\ ~s.hasRecordedFirstInputRef)
          => \E task \in {[kind |-> "fid", inputTime |-> now, inputType |-> ty] :
                            ty \in {"touch", "scroll"}} :
                 trackers'[i].microtasks = Append(s.microtasks, task)

\* the deferred step of the first input measures the delay from that stamp
FirstInputMeasured(i) ==
    LET s    == trackers[i]
        task == Head(s.microtasks)
        fid  == trackers'[i].firstInputDelayRef[1]
    IN  FirstInputMicrotaskStep(i)
          => /\ trackers'[i].firstInputDelayRef # None
             /\ fid.firstInputTimeMs = task.inputTime
             /\ fid.inputProcessingStartTimeMs = now
             /\ fid.firstInputDelayMs
                  = fid.inputProcessingStartTimeMs - fid.firstInputTimeMs
             /\ fid.firstInputDelayMs >= 0
             /\ fid.inputType \in {"touch", "scroll"}

\* the deferred step of the first input invokes onMetricsReady and then
\* onReport, both with the measured firstInputDelay
FirstInputNotifiedThenReported(i) ==
    LET s   == trackers[i]
        obs == trackers'[i].observed
        n   == Len(s.observed)
    IN  FirstInputMicrotaskStep(i)
          => /\ Len(obs) = n + 2
             /\ SubSeq(obs, 1, n) = s.observed
             /\ obs[n + 1].cb = "onMetricsReady"
             /\ obs[n + 1].metrics.firstInputDelay = trackers'[i].firstInputDelayRef
             /\ obs[n + 2].cb = "onReport"
             /\ obs[n + 2].metrics.firstInputDelay = trackers'[i].firstInputDelayRef

\* C34: the first input stamps firstInputTimeMs synchronously and
\* inputProcessingStartTimeMs in a deferred step, with firstInputDelayMs =
\* inputProcessingStartTimeMs - firstInputTimeMs >= 0 and inputType touch or
\* scroll; in that deferred step onMetricsReady is invoked with the metrics
\* containing this firstInputDelay strictly before onReport, and onReport
\* follows in the same step with the same firstInputDelay.
C34_InputPathOrdering ==
    [][\A i \in Instances :
          /\ FirstInputStamped(i)
          /\ FirstInputMeasured(i)
          /\ FirstInputNotifiedThenReported(i)]_vars

\* C35: whenever the deferred processing step of the first input has run, the
\* instance is finalized in that same step, onReport having been invoked with
\* firstInputDelay present, in every state in which the input can arrive,
\* including an input that arrives while the metrics record is still null.
C35_FirstInputFinalizes ==
    [][\A i \in Instances :
          FirstInputMicrotaskStep(i)
            => /\ trackers'[i].hasLoggedRef
               /\ Reports(trackers'[i]) # <<>>
               /\ Reports(trackers'[i])[1].metrics.firstInputDelay
                    = trackers'[i].firstInputDelayRef
               /\ trackers'[i].firstInputDelayRef # None]_vars

\* a step in which the host component of instance i re-renders
RerenderStep(i) == trackers'[i].rerenders = trackers[i].rerenders + 1

\* C36: first-frame capture runs once per instance: re-rendering the host
\* component, also with a new onMetricsReady identity or a changed debug flag
\* or log prefix, does not re-run the initial-metrics capture, so the metrics
\* record is never reset to the initial record (dropping captured TTI or FID)
\* and onMetricsReady is not invoked again for the first frame.
C36_FirstFrameCaptureOnce ==
    [][\A i \in Instances :
          LET s == trackers[i]
          IN  /\ RerenderStep(i) => trackers'[i].microtasks = s.microtasks
              /\ FirstFrameMicrotaskStep(i)
                   => /\ ~FirstFrameCaptured(s)
                      /\ s.metrics # None
                           => /\ s.metrics[1].timeToInteractiveMs # None
                                   => trackers'[i].metrics[1].timeToInteractiveMs
                                        # None
                              /\ s.metrics[1].firstInputDelay # None
                                   => trackers'[i].metrics[1].firstInputDelay
                                        # None]_vars

\* the lowest and the highest of the three sub-scores
MinScore(b) ==
    CHOOSE x \in {b.ttff, b.tti, b.fid} : \A y \in {b.ttff, b.tti, b.fid} : x <= y

MaxScore(b) ==
    CHOOSE x \in {b.ttff, b.tti, b.fid} : \A y \in {b.ttff, b.tti, b.fid} : x >= y

C38_TTIConsistent ==
    \A i \in Instances :
        LET s == trackers[i]
            m == s.metrics[1]
        IN  (s.metrics # None /\ m.timeToInteractiveMs # None)
              => /\ m.interactiveTimeMs # None
                 /\ s.interactiveTimeMsRef = m.interactiveTimeMs
                 /\ Calls(s, "onInteractive") # <<>>
                 /\ Calls(s, "onInteractive")[1].metrics.interactiveTimeMs
                      = m.interactiveTimeMs
                 /\ m.mountStartTimeMs = s.mountStartTimeMsRef
                 /\ m.mountStartTimeMs = StartTime
                 /\ m.timeToInteractiveMs
                      = Some(m.interactiveTimeMs[1] - m.mountStartTimeMs)

\* C38 witness: the metrics record had lost the TTI data to a first-frame
\* capture that came one clock step after the first render; the report
\* restored them, measured from the mount.
C38_RestoredTTIFromMount ==
    \E i \in Instances :
        LET s == trackers[i]
        IN  /\ s.metrics # None
            /\ s.hasLoggedRef
            /\ s.metrics[1].firstFrameTimeMs = StartTime + TickMs
            /\ s.metrics[1].interactiveTimeMs = Some(StartTime + TickMs)
            /\ s.metrics[1].timeToInteractiveMs = Some(TickMs)
            /\ \E k \in CallsAt(s, "onMetricsReady") :
                   /\ \E j \in 1..(k - 1) : s.observed[j].cb = "onInteractive"
                   /\ s.observed[k].metrics.timeToInteractiveMs = None

=============================================================================
